---- MODULE Spec2Model ----
(***************************************************************************)
(* Model of toolbox.asyncio.pattern.ClassTask: one instance, its stored    *)
(* asyncio task handle, the event loop it submits to, and the calls made   *)
(* on it (start, stop, __aenter__, __aexit__).                             *)
(*                                                                         *)
(* The asyncio side is modelled by what ClassTask uses of it:              *)
(*   loop.create_task  a new task, not done, not yet stepped               *)
(*   Task.cancel       requests cancellation of a task that is not done    *)
(*   Task.cancelled    true only once the task has finished by unwinding   *)
(*                     a cancellation                                      *)
(*   loop.run_forever  blocks the caller, or raises RuntimeError when the  *)
(*                     loop is already running                             *)
(* The entry-point is opaque: a task ends by returning, by raising, or by  *)
(* unwinding a cancellation requested through the handle; a started        *)
(* entry-point may also catch the cancellation and go on.  The handle is   *)
(* private to the instance, so only stop() requests cancellation.          *)
(*                                                                         *)
(* Every handler is one atomic action (calls are serialized on one loop,   *)
(* hooks are not re-entrant and do not raise); the order of the effects    *)
(* inside a handler is kept in the `events` log.                           *)
(***************************************************************************)
EXTENDS Integers, Sequences, FiniteSets, TLC

\* Bound on the number of calls made on the instance after construction.
MaxCalls == 3

None == 0

VARIABLES
    start_callback,  \* TRUE iff a start_callback was given (self._start_callback)
    end_callback,    \* TRUE iff an end_callback was given (self._end_callback)
    run_forever,     \* self._run_forever
    start,           \* the constructor's start argument
    task,            \* self._task: None or the index in tasks of the stored handle
    tasks,           \* every task created on the loop by this instance, in order
    loop,            \* self._loop: "stopped", "running", or "forever" (a start() is blocked in run_forever)
    events,          \* log: call markers and the effects of each call, in program order
    frames           \* calls past their guard and not yet finished (empty when calls are serialized)

vars == <<start_callback, end_callback, run_forever, start, task, tasks, loop, events, frames>>

CallMarkers == {"start", "stop", "__aenter__", "__aexit__"}

----------------------------------------------------------------------------
\* asyncio.Task, as far as ClassTask observes it.

NewTask == [st |-> "live", started |-> FALSE, must_cancel |-> FALSE, cancelling |-> 0]

\* Task.done()
done(t, ts) == t # None /\ ts[t].st # "live"

\* Task.cancelled()
cancelled(t, ts) == t # None /\ ts[t].st = "cancelled"

\* mutant: cancel() finishes the task on the spot
cancel_sync(t, ts) ==
    IF t # None /\ ts[t].st = "live"
    THEN [ts EXCEPT ![t].st = "cancelled", ![t].cancelling = @ + 1]
    ELSE ts
\* Task.cancel(): a request on a task that is not done; nothing on a done task.
cancel(t, ts) ==
    IF t # None /\ ts[t].st = "live"
    THEN [ts EXCEPT ![t].must_cancel = TRUE, ![t].cancelling = @ + 1]
    ELSE ts

\* loop.create_task(self._func())
create_task(ts) == Append(ts, NewTask)

\* loop.run_forever(): the events it leaves and the loop state after the call.
run_forever_loop(lp) == IF lp = "stopped" THEN "forever" ELSE lp
run_forever_events(lp) ==
    IF lp = "stopped" THEN <<"run_forever">> ELSE <<"run_forever", "RuntimeError">>

----------------------------------------------------------------------------
\* ClassTask.start / ClassTask.stop on a state s = [task, tasks, loop, events].

\* mutant: the guard is dropped, every start() submits
start_guard_always(t, ts) == TRUE
\* mutant: only the first start() ever submits
start_guard_once(t, ts) == t = None
\* mutant: done() is tested instead of cancelled()
start_guard_done(t, ts) == t = None \/ done(t, ts)
\* mutant: a cancel-requested handle already counts as cancelled
start_guard_eager(t, ts) ==
    t = None \/ cancelled(t, ts) \/ (ts[t].st = "live" /\ ts[t].must_cancel)
start_guard(t, ts) == t = None \/ cancelled(t, ts)

\* mutant: the entry-point is submitted before the hook runs
start_effects_swapped(cb) ==
    IF cb THEN <<"create_task", "start_callback">> ELSE <<"create_task">>
start_effects(cb) ==
    IF cb THEN <<"start_callback", "create_task">> ELSE <<"create_task">>

DoStart(s, cb, rf) ==
    IF start_guard(s.task, s.tasks)
    THEN LET ts == create_task(s.tasks)
             ev == s.events \o start_effects(cb)
         IN  [task   |-> Len(ts),
              tasks  |-> ts,
              loop   |-> IF rf THEN run_forever_loop(s.loop) ELSE s.loop,
              events |-> IF rf THEN ev \o run_forever_events(s.loop) ELSE ev]
    ELSE s

\* start() when calling the entry-point or create_task raises: the hook has
\* run, the assignment of line 87 is not reached, the error leaves start().
start_failure_effects(cb) ==
    IF cb THEN <<"start_callback", "create_task raises">> ELSE <<"create_task raises">>

\* mutant: a handle is stored although the submission failed
DoStartFailing_half(s, cb) ==
    IF start_guard(s.task, s.tasks)
    THEN [s EXCEPT !.task   = Len(s.tasks) + 1,
                   !.tasks  = create_task(s.tasks),
                   !.events = s.events \o start_failure_effects(cb)]
    ELSE s
DoStartFailing(s, cb) ==
    IF start_guard(s.task, s.tasks)
    THEN [s EXCEPT !.events = s.events \o start_failure_effects(cb)]
    ELSE s

\* mutant: the `self._task and` test is missing
stop_guard_no_none(t, ts) == ~cancelled(t, ts)
stop_guard(t, ts) == t # None /\ ~cancelled(t, ts)

stop_effects(cb) ==
    IF cb THEN <<"end_callback", "cancel">> ELSE <<"cancel">>

\* mutant: stop() drops the handle after cancelling it
DoStop_clears(s, cb) ==
    IF stop_guard(s.task, s.tasks)
    THEN [s EXCEPT !.task   = None,
                   !.tasks  = cancel(s.task, s.tasks),
                   !.events = s.events \o stop_effects(cb)]
    ELSE s
\* mutant: stop() runs the hook and forgets to cancel
DoStop_hook_only(s, cb) ==
    IF stop_guard(s.task, s.tasks)
    THEN [s EXCEPT !.events = s.events \o stop_effects(cb)]
    ELSE s
DoStop(s, cb) ==
    IF stop_guard(s.task, s.tasks)
    THEN [s EXCEPT !.tasks  = cancel(s.task, s.tasks),
                   !.events = s.events \o stop_effects(cb)]
    ELSE s

\* What __aexit__ returns after its stop().
\* mutant: reports that a cancellation was requested instead of confirmed
aexit_result_requested(t, ts) ==
    IF t # None
    THEN (IF cancelled(t, ts) \/ ts[t].must_cancel THEN "True" ELSE "False")
    ELSE "None"
aexit_result(t, ts) ==
    IF t # None
    THEN (IF cancelled(t, ts) THEN "True" ELSE "False")
    ELSE "None"

\* `async with`: a truthy result of __aexit__ suppresses the propagating error.
aexit_events(ret, exc) ==
    <<"return " \o ret>> \o
    (IF exc THEN (IF ret = "True" THEN <<"exc suppressed">> ELSE <<"exc propagated">>)
            ELSE <<>>)

\* ClassTask.__init__ called while the loop is in state lp.
\* mutant: the start argument is ignored
construct_no_start(cb, rf, st, lp) ==
    [task |-> None, tasks |-> <<>>, loop |-> lp, events |-> <<"__init__">>]
construct(cb, rf, st, lp) ==
    LET s0 == [task |-> None, tasks |-> <<>>, loop |-> lp, events |-> <<"__init__">>]
    IN  IF st THEN DoStart(s0, cb, rf) ELSE s0

----------------------------------------------------------------------------
\* Derived views of the log.

Calls == SelectSeq(events, LAMBDA e : e \in CallMarkers)
Count(e) == Cardinality({i \in DOMAIN events : events[i] = e})
nSubmit == Count("create_task")
nStartCb == Count("start_callback")
nEndCb == Count("end_callback")
nCancel == Count("cancel")
Hooks(cb, n) == IF cb THEN n ELSE 0

State == [task |-> task, tasks |-> tasks, loop |-> loop, events |-> events]
Called(m) == [State EXCEPT !.events = Append(events, m)]

Becomes(r) ==
    /\ task' = r.task
    /\ tasks' = r.tasks
    /\ loop' = r.loop
    /\ events' = r.events
    /\ UNCHANGED <<start_callback, end_callback, run_forever, start, frames>>

----------------------------------------------------------------------------
Init ==
    \E cb1 \in BOOLEAN, cb2 \in BOOLEAN, rf \in BOOLEAN, st \in BOOLEAN,
       lp \in {"stopped", "running"} :
        LET r == construct(cb1, rf, st, lp)
        IN  /\ start_callback = cb1
            /\ end_callback = cb2
            /\ run_forever = rf
            /\ start = st
            /\ task = r.task
            /\ tasks = r.tasks
            /\ loop = r.loop
            /\ events = r.events
            /\ frames = <<>>

\* start(), from synchronous code or from a coroutine or callback on the loop
Start ==
    /\ Len(Calls) < MaxCalls
    /\ Becomes(DoStart(Called("start"), start_callback, run_forever))

\* stop()
Stop ==
    /\ Len(Calls) < MaxCalls
    /\ Becomes(DoStop(Called("stop"), end_callback))

\* await __aenter__(): a coroutine, so the loop is running
AEnter ==
    /\ Len(Calls) < MaxCalls
    /\ loop # "stopped"
    /\ Becomes(DoStart(Called("__aenter__"), start_callback, run_forever))

\* await __aexit__(exc_type, exc_val, exc_tb); exc: an error is propagating
AExit ==
    /\ Len(Calls) < MaxCalls
    /\ loop # "stopped"
    /\ \E exc \in BOOLEAN :
        LET s == DoStop(Called("__aexit__"), end_callback)
            ret == aexit_result(s.task, s.tasks)
        IN  Becomes([s EXCEPT !.events = s.events \o aexit_events(ret, exc)])

\* The loop steps a task: the entry-point runs up to its first await.
TaskStep ==
    /\ loop # "stopped"
    /\ \E i \in DOMAIN tasks :
        /\ tasks[i].st = "live" /\ ~tasks[i].started /\ ~tasks[i].must_cancel
        /\ tasks' = [tasks EXCEPT ![i].started = TRUE]
    /\ UNCHANGED <<start_callback, end_callback, run_forever, start, task, loop, events, frames>>

\* The entry-point returns on its own.
TaskReturns ==
    /\ loop # "stopped"
    /\ \E i \in DOMAIN tasks :
        /\ tasks[i].st = "live" /\ ~tasks[i].must_cancel
        /\ tasks' = [tasks EXCEPT ![i].st = "returned"]
    /\ UNCHANGED <<start_callback, end_callback, run_forever, start, task, loop, events, frames>>

\* The entry-point raises on its own.
TaskFails ==
    /\ loop # "stopped"
    /\ \E i \in DOMAIN tasks :
        /\ tasks[i].st = "live" /\ ~tasks[i].must_cancel
        /\ tasks' = [tasks EXCEPT ![i].st = "failed"]
    /\ UNCHANGED <<start_callback, end_callback, run_forever, start, task, loop, events, frames>>

\* The loop delivers the requested cancellation and the entry-point unwinds.
TaskCancelled ==
    /\ loop # "stopped"
    /\ \E i \in DOMAIN tasks :
        /\ tasks[i].st = "live" /\ tasks[i].must_cancel
        /\ tasks' = [tasks EXCEPT ![i].st = "cancelled", ![i].must_cancel = FALSE]
    /\ UNCHANGED <<start_callback, end_callback, run_forever, start, task, loop, events, frames>>

\* A started entry-point catches the cancellation and goes on.
TaskSwallows ==
    /\ loop # "stopped"
    /\ \E i \in DOMAIN tasks :
        /\ tasks[i].st = "live" /\ tasks[i].started /\ tasks[i].must_cancel
        /\ tasks' = [tasks EXCEPT ![i].must_cancel = FALSE]
    /\ UNCHANGED <<start_callback, end_callback, run_forever, start, task, loop, events, frames>>

\* Synchronous code starts running the loop (run_until_complete, asyncio.run).
LoopRun ==
    /\ loop = "stopped"
    /\ loop' = "running"
    /\ UNCHANGED <<start_callback, end_callback, run_forever, start, task, tasks, events, frames>>

\* The loop is stopped; a start() blocked in run_forever returns.
LoopStop ==
    /\ loop # "stopped"
    /\ loop' = "stopped"
    /\ events' = IF loop = "forever" THEN Append(events, "run_forever returns") ELSE events
    /\ UNCHANGED <<start_callback, end_callback, run_forever, start, task, tasks, frames>>

Next ==
    \/ Start
    \/ Stop
    \/ AEnter
    \/ AExit
    \/ TaskStep
    \/ TaskReturns
    \/ TaskFails
    \/ TaskCancelled
    \/ TaskSwallows
    \/ LoopRun
    \/ LoopStop

Spec == Init /\ [][Next]_vars

----------------------------------------------------------------------------
\* The instance with an entry-point that never catches the cancellation, on a
\* loop that is fair: a stopped loop is run again, and a task whose
\* cancellation was requested is stepped by the running loop.  Nothing
\* obliges anybody to stop the loop.  Both hooks are given.

InitCoop == Init /\ start_callback /\ end_callback

NextCoop ==
    \/ Start
    \/ Stop
    \/ AEnter
    \/ AExit
    \/ TaskStep
    \/ TaskReturns
    \/ TaskFails
    \/ TaskCancelled
    \/ LoopRun
    \/ LoopStop

SpecCoop ==
    /\ InitCoop
    /\ [][NextCoop]_vars
    /\ WF_vars(LoopRun)
    /\ SF_vars(TaskCancelled)

----------------------------------------------------------------------------
\* start() and stop() taken statement by statement, for calls that overlap: a
\* hook that calls start() or stop() again, or a call from another thread.
\* A frame is a call that has passed its guard (line 84 or 95) and is at its
\* hook or at its last statement; any frame may take its next step.
\* The instance was constructed with start=False and run_forever=False, and
\* its loop is running throughout.

InitR ==
    /\ Init
    /\ ~start /\ ~run_forever
    /\ loop = "running"

Frame(op, hook) == [op |-> op, pc |-> IF hook THEN "hook" ELSE "act"]

Without(i) == SubSeq(frames, 1, i - 1) \o SubSeq(frames, i + 1, Len(frames))

Config == <<start_callback, end_callback, run_forever, start>>

\* start(): line 84
RStartCheck ==
    /\ Len(Calls) < MaxCalls
    /\ IF start_guard(task, tasks)
       THEN /\ events' = events \o <<"start", "guard passed">>
            /\ frames' = Append(frames, Frame("start", start_callback))
       ELSE /\ events' = Append(events, "start")
            /\ frames' = frames
    /\ UNCHANGED <<Config, task, tasks, loop>>

\* start(): lines 85-86
RStartHook ==
    \E i \in DOMAIN frames :
        /\ frames[i].op = "start" /\ frames[i].pc = "hook"
        /\ events' = Append(events, "start_callback")
        /\ frames' = [frames EXCEPT ![i].pc = "act"]
        /\ UNCHANGED <<Config, task, tasks, loop>>

\* start(): lines 87-89
RStartSubmit ==
    \E i \in DOMAIN frames :
        /\ frames[i].op = "start" /\ frames[i].pc = "act"
        /\ tasks' = create_task(tasks)
        /\ task' = Len(tasks')
        /\ loop' = IF run_forever THEN run_forever_loop(loop) ELSE loop
        /\ events' = Append(events, "create_task") \o
                        (IF run_forever THEN run_forever_events(loop) ELSE <<>>)
        /\ frames' = Without(i)
        /\ UNCHANGED Config

\* stop(): line 95
RStopCheck ==
    /\ Len(Calls) < MaxCalls
    /\ IF stop_guard(task, tasks)
       THEN /\ events' = events \o <<"stop", "guard passed">>
            /\ frames' = Append(frames, Frame("stop", end_callback))
       ELSE /\ events' = Append(events, "stop")
            /\ frames' = frames
    /\ UNCHANGED <<Config, task, tasks, loop>>

\* stop(): lines 96-97
RStopHook ==
    \E i \in DOMAIN frames :
        /\ frames[i].op = "stop" /\ frames[i].pc = "hook"
        /\ events' = Append(events, "end_callback")
        /\ frames' = [frames EXCEPT ![i].pc = "act"]
        /\ UNCHANGED <<Config, task, tasks, loop>>

\* stop(): line 98, on the handle stored at that moment
RStopCancel ==
    \E i \in DOMAIN frames :
        /\ frames[i].op = "stop" /\ frames[i].pc = "act"
        /\ tasks' = cancel(task, tasks)
        /\ events' = Append(events, "cancel")
        /\ frames' = Without(i)
        /\ UNCHANGED <<Config, task, loop>>

NextR ==
    \/ RStartCheck
    \/ RStartHook
    \/ RStartSubmit
    \/ RStopCheck
    \/ RStopHook
    \/ RStopCancel
    \/ TaskStep
    \/ TaskReturns
    \/ TaskFails
    \/ TaskCancelled
    \/ TaskSwallows

SpecR == InitR /\ [][NextR]_vars

----------------------------------------------------------------------------
\* The same instance on a loop whose create_task (or the call of the
\* entry-point) may raise.

\* start() whose submission raises
StartSubmitFails ==
    /\ Len(Calls) < MaxCalls
    /\ start_guard(task, tasks)
    /\ Becomes(DoStartFailing(Called("start"), start_callback))

\* await __aenter__() whose start() raises
AEnterSubmitFails ==
    /\ Len(Calls) < MaxCalls
    /\ loop # "stopped"
    /\ start_guard(task, tasks)
    /\ Becomes(DoStartFailing(Called("__aenter__"), start_callback))

NextF ==
    \/ Next
    \/ StartSubmitFails
    \/ AEnterSubmitFails

SpecF == Init /\ [][NextF]_vars

----------------------------------------------------------------------------
\* Vocabulary of the properties.

StartMarkers == {"__init__", "start", "__aenter__"}
StopMarkers == {"stop", "__aexit__"}
Returns == {"None", "True", "False"}

Live == {i \in DOMAIN tasks : tasks[i].st = "live"}

\* The step is a call of method m.
IsCall(m) == Len(events') > Len(events) /\ events'[Len(events) + 1] = m

\* The value returned by the __aexit__ call this step makes.
Returned ==
    CHOOSE r \in Returns :
        \E j \in (Len(events) + 1)..Len(events') : events'[j] = "return " \o r

\* The stored handle finished on its own: done, and never to report cancelled.
Stuck == task # None /\ tasks[task].st \in {"returned", "failed"}

----------------------------------------------------------------------------
\* C1: at most one task submitted by the instance is live in any reachable
\* state; the stored handle is the last task submitted and every task
\* submitted before it has reached the cancelled state.
C1_AtMostOneLive ==
    /\ Cardinality(Live) <= 1
    /\ \A i \in DOMAIN tasks : i < Len(tasks) => tasks[i].st = "cancelled"
    /\ task = Len(tasks)

C1_Witness == Len(tasks) = 2 /\ tasks[2].st = "live"

\* C2: start() twice with no stop() between (run_forever=False) makes one
\* submission and one start_callback invocation in all, and any start() made
\* while the stored handle exists and is not cancelled changes nothing.
C2_StartTwice ==
    /\ [](~run_forever /\ Calls = <<"start", "start">> =>
            nSubmit = 1 /\ nStartCb = Hooks(start_callback, 1))
    /\ [][IsCall("start") /\ task # None /\ ~cancelled(task, tasks) =>
            /\ task' = task
            /\ tasks' = tasks
            /\ loop' = loop
            /\ events' = Append(events, "start")]_vars

C2_Witness ==
    /\ ~run_forever /\ ~start
    /\ Calls = <<"start", "start">>
    /\ nSubmit = 1
    /\ tasks[1].st = "live"

\* C3: stop() twice with no start() between makes exactly one cancellation
\* request and one end_callback invocation, also when the second stop() comes
\* before the loop has confirmed the cancellation.
C3_StopTwice ==
    ~start /\ Calls = <<"start", "stop", "stop">> =>
        nCancel = 1 /\ nEndCb = Hooks(end_callback, 1)

\* C4 as claimed: stop() on a running task followed by start() always makes a
\* second submission, wherever the loop's steps fall between the two calls.
C4_RestartAlways ==
    ~start /\ Calls = <<"start", "stop", "start">> /\ tasks[1].cancelling >= 1 =>
        nSubmit = 2

\* C4 as amended: a start() that follows a stop() which requested the
\* cancellation of the stored handle creates a new handle, runs
\* start_callback and leaves a live task exactly when the handle reports
\* cancelled() at the time of the call; otherwise it changes neither the
\* handle nor the tasks.
C4_RestartOnceCancelled ==
    [][IsCall("start") /\ Calls # <<>> /\ Calls[Len(Calls)] = "stop"
       /\ task # None /\ tasks[task].cancelling >= 1 =>
            IF cancelled(task, tasks)
            THEN /\ Len(tasks') = Len(tasks) + 1
                 /\ task' = Len(tasks')
                 /\ tasks'[task'].st = "live"
                 /\ nSubmit' = nSubmit + 1
                 /\ nStartCb' = nStartCb + Hooks(start_callback, 1)
            ELSE /\ task' = task
                 /\ tasks' = tasks
                 /\ nSubmit' = nSubmit
                 /\ nStartCb' = nStartCb]_vars

C4_Witness ==
    /\ ~start
    /\ Calls = <<"start", "stop", "start">>
    /\ Len(tasks) = 2
    /\ tasks[1].st = "cancelled"
    /\ tasks[2].st = "live"

\* C5: stop() on an instance that was never started does nothing (no
\* end_callback, no cancel(), handle still absent); the start() after it
\* makes one submission and a further start() leaves the total at one.
C5_StopBeforeStart ==
    ~start =>
        /\ Calls = <<"stop">> =>
              nEndCb = 0 /\ nCancel = 0 /\ task = None /\ tasks = <<>>
        /\ Calls = <<"stop", "start">> =>
              nSubmit = 1 /\ nEndCb = 0 /\ nCancel = 0
        /\ Calls = <<"stop", "start", "start">> =>
              /\ nSubmit = 1
              /\ nStartCb = Hooks(start_callback, 1)
              /\ nEndCb = 0
              /\ nCancel = 0

C5_Witness ==
    ~start /\ Calls = <<"stop", "start", "start">> /\ nSubmit = 1

\* C6: no reachable state is terminal: a state in which start() submits again
\* can be reached from every reachable state.  start() submits only for an
\* absent or cancelled handle, and a handle becomes cancelled only while its
\* task is live, so the states with that possibility are those whose handle
\* is absent, live or cancelled.
C6_NoTerminalState == ~Stuck

\* Supporting C6: a handle that finished on its own stays so under every
\* call and every step of the loop, and no submission follows.
C6_StuckIsAbsorbing == [][Stuck => Stuck' /\ nSubmit' = nSubmit]_vars

\* C7: start_callback (when given) is invoked exactly once in a start() that
\* proceeds and right before the submission; end_callback (when given) is
\* invoked exactly once in a stop() that proceeds and right before cancel();
\* no submission or cancel() happens without its hook in the same call.
C7_HookBeforeEffect ==
    \A i \in DOMAIN events :
        /\ events[i] = "create_task" =>
              IF start_callback
              THEN i > 2 /\ events[i-1] = "start_callback" /\ events[i-2] \in StartMarkers
              ELSE i > 1 /\ events[i-1] \in StartMarkers
        /\ events[i] = "cancel" =>
              IF end_callback
              THEN i > 2 /\ events[i-1] = "end_callback" /\ events[i-2] \in StopMarkers
              ELSE i > 1 /\ events[i-1] \in StopMarkers
        /\ events[i] = "start_callback" =>
              i < Len(events) /\ events[i+1] = "create_task"
        /\ events[i] = "end_callback" =>
              i < Len(events) /\ events[i+1] = "cancel"

C7_Witness ==
    /\ start_callback /\ end_callback
    /\ nStartCb = 2 /\ nSubmit = 2
    /\ nEndCb >= 1 /\ nCancel >= 1

\* C8: __aenter__ then __aexit__ makes one submission and one cancel() in
\* all, and what __aexit__ returns is the handle's cancelled() state at that
\* instant: False for a handle whose cancellation this exit requested, True
\* only for a handle that was cancelled before the exit, None without handle.
C8_ScopedAcquisition ==
    /\ [](Calls = <<"__aenter__", "__aexit__">> =>
            /\ nSubmit = 1
            /\ nCancel = 1
            /\ nStartCb = Hooks(start_callback, 1)
            /\ nEndCb = Hooks(end_callback, 1)
            /\ Count("return False") = 1)
    /\ [][IsCall("__aexit__") =>
            /\ Returned = IF task' = None THEN "None"
                          ELSE IF cancelled(task', tasks') THEN "True" ELSE "False"
            /\ Returned = "True" => cancelled(task, tasks)
            /\ (task # None /\ tasks[task].st = "live") => Returned = "False"
            /\ task = None => Returned = "None"]_vars

C8_Witness ==
    /\ ~start
    /\ Calls = <<"__aenter__", "__aexit__">>
    /\ nSubmit = 1 /\ nCancel = 1
    /\ tasks[1].must_cancel
    /\ Count("return False") = 1

C10_StartOnConstruction ==
    start /\ ~run_forever =>
        /\ nSubmit >= 1
        /\ Calls = <<>> =>
              /\ nSubmit = 1
              /\ nStartCb = Hooks(start_callback, 1)
              /\ task = 1 /\ Len(tasks) = 1
        /\ Calls = <<"start">> =>
              nSubmit = 1 /\ nStartCb = Hooks(start_callback, 1)
        /\ Calls \in {<<"stop">>, <<"start", "stop">>} =>
              /\ nSubmit = 1
              /\ nStartCb = Hooks(start_callback, 1)
              /\ nCancel = 1
              /\ nEndCb = Hooks(end_callback, 1)

C10_Witness ==
    /\ start /\ ~run_forever
    /\ Calls = <<"start", "stop">>
    /\ nSubmit = 1 /\ nCancel = 1

----------------------------------------------------------------------------
\* C14: a start() made while the stored handle is cancel-requested and not
\* yet cancelled runs no hook, submits nothing and keeps the handle; the
\* request is not remembered: the step in which the loop confirms the
\* cancellation submits nothing, and a start() creates a new handle exactly
\* when the handle it finds is absent or reports cancelled().
C14_StartWhileCancelling ==
    /\ [][IsCall("start") /\ task # None
          /\ tasks[task].st = "live" /\ tasks[task].must_cancel =>
            /\ task' = task
            /\ tasks' = tasks
            /\ events' = Append(events, "start")]_vars
    /\ [][(\E i \in DOMAIN tasks : tasks[i].st # "cancelled" /\ tasks'[i].st = "cancelled") =>
            /\ task' = task
            /\ Len(tasks') = Len(tasks)
            /\ events' = events]_vars
    /\ [][IsCall("start") =>
            (Len(tasks') > Len(tasks) <=> (task = None \/ cancelled(task, tasks)))]_vars

\* stopped, although start() was the last call made
C14_Witness ==
    /\ ~start
    /\ Calls = <<"start", "stop", "start">>
    /\ Len(tasks) = 1
    /\ cancelled(task, tasks)

\* C16: the stored handle reference changes only in a start() (called
\* directly, by __aenter__ or by the constructor) that passes the guard;
\* stop(), __aexit__, a guarded-off start() and every step of the loop leave
\* it unchanged, and a stored reference never becomes absent again.
C16_HandleFrame ==
    [][/\ task' # task =>
            /\ IsCall("start") \/ IsCall("__aenter__")
            /\ task = None \/ cancelled(task, tasks)
            /\ task' = Len(tasks')
            /\ Len(tasks') = Len(tasks) + 1
       /\ task # None => task' # None
       /\ (IsCall("stop") \/ IsCall("__aexit__")) => task' = task]_vars

C16_Witness ==
    /\ Len(tasks) = 2 /\ task = 2
    /\ "stop" \in {Calls[i] : i \in DOMAIN Calls}
    /\ "__aexit__" \in {Calls[i] : i \in DOMAIN Calls}

\* C17: every __aexit__, with or without a propagating error, calls stop()
\* once (at most one end_callback and one cancel()), and when it returns no
\* task of the instance is running without a cancellation having been
\* requested on it: each is cancel-requested, cancelled or finished.
C17_ReleaseAlwaysRuns ==
    [][IsCall("__aexit__") =>
            /\ nCancel' - nCancel = (IF task # None /\ ~cancelled(task, tasks) THEN 1 ELSE 0)
            /\ nEndCb' - nEndCb = Hooks(end_callback, nCancel' - nCancel)
            /\ \A i \in DOMAIN tasks' :
                  tasks'[i].st = "live" => tasks'[i].cancelling >= 1
            /\ task' = task]_vars

\* the scope exits with an error after start()/stop() were called inside it
C17_Witness ==
    /\ Calls = <<"__aenter__", "stop", "__aexit__">>
    /\ Count("exc propagated") = 1
    /\ tasks[task].st = "live" /\ tasks[task].cancelling = 2

\* C18: end_callback is invoked and cancel() called only for a handle whose
\* task is still live: a stop() on a handle that returned or failed on its
\* own invokes no end_callback and requests no cancellation.
C18_StopOnlyLive ==
    [][nEndCb' > nEndCb \/ nCancel' > nCancel =>
            task # None /\ tasks[task].st = "live"]_vars

\* C19: with both hooks given, in every reachable state the start_callback
\* invocations equal the submissions, the end_callback invocations equal the
\* cancel() calls and do not exceed the start_callback invocations, and
\* cancel() is only ever called on the stored handle.
C19_Counting ==
    /\ [](start_callback /\ end_callback =>
            /\ nStartCb = nSubmit
            /\ nEndCb = nCancel
            /\ nEndCb <= nStartCb)
    /\ [][\A i \in DOMAIN tasks :
            tasks'[i].cancelling # tasks[i].cancelling => i = task]_vars

----------------------------------------------------------------------------
\* C12: when the submission raises inside start(), start_callback has run,
\* nothing else happens in the call (no retry, no run_forever: the error
\* leaves start()), the stored handle and the tasks are what they were, and
\* the next start() passes the guard again and attempts the submission anew,
\* so start_callback runs once per attempt.
C12_SubmissionFailure ==
    /\ [][IsCall("start") /\ events'[Len(events')] = "create_task raises" =>
            /\ task' = task
            /\ tasks' = tasks
            /\ loop' = loop
            /\ events' = Append(events, "start") \o start_failure_effects(start_callback)
            /\ task' = None \/ cancelled(task', tasks')]_vars
    /\ [](\A i \in DOMAIN events :
            events[i] = "create_task raises" /\ i < Len(events) =>
                events[i+1] \in CallMarkers \cup {"run_forever returns"})
    /\ [][IsCall("start") /\ events[Len(events)] = "create_task raises" =>
            /\ Len(events') > Len(events) + 1
            /\ nStartCb' = nStartCb + Hooks(start_callback, 1)]_vars
    /\ [](nStartCb = Hooks(start_callback, nSubmit + Count("create_task raises")))

C12_Witness ==
    /\ ~start /\ start_callback
    /\ Calls = <<"start", "start">>
    /\ events[4] = "create_task raises"
    /\ nStartCb = 2
    /\ nSubmit = 1 /\ task = 1

----------------------------------------------------------------------------
\* A start() is blocked in run_forever and the cancellation of the stored
\* handle has been requested.
BlockedAndStopped ==
    loop = "forever" /\ task # None /\ tasks[task].st = "live" /\ tasks[task].must_cancel

\* C11: in run-forever mode, once stop() is called while start() is blocked,
\* the handle eventually reports cancelled and start() eventually returns.
C11_RunForeverReturns ==
    /\ BlockedAndStopped ~> (\E i \in DOMAIN tasks : tasks[i].st = "cancelled")
    /\ BlockedAndStopped ~> (loop # "forever")

\* Supporting C11: a blocked start() returns in no other step than the stop
\* of the loop; no call on the instance and no step of a task unblocks it,
\* whatever the state of the handle.
C11_OnlyLoopStopUnblocks ==
    [][loop = "forever" /\ loop' # "forever" =>
            /\ loop' = "stopped"
            /\ events' = Append(events, "run_forever returns")
            /\ tasks' = tasks]_vars

\* C13: stop() on a running task only requests the cancellation: when it
\* returns the task is still live, as far into its body as before, and
\* cancelled() is false; a task becomes cancelled only in a step of the loop,
\* never inside a call; and on a fair loop a requested cancellation is
\* eventually followed by the handle reporting cancelled.
C13_CooperativeCancel ==
    /\ [][(IsCall("stop") \/ IsCall("__aexit__")) /\ task # None /\ tasks[task].st = "live" =>
            /\ tasks'[task].st = "live"
            /\ tasks'[task].must_cancel
            /\ tasks'[task].started = tasks[task].started
            /\ ~cancelled(task', tasks')]_vars
    /\ [][\A i \in DOMAIN tasks :
            tasks[i].st # "cancelled" /\ tasks'[i].st = "cancelled" =>
                tasks[i].must_cancel /\ events' = events]_vars
    /\ \A i \in 1..(MaxCalls + 1) :
            (i \in DOMAIN tasks /\ tasks[i].must_cancel) ~>
                (i \in DOMAIN tasks /\ tasks[i].st = "cancelled")

C13_Witness ==
    /\ ~start
    /\ Calls = <<"start", "stop">>
    /\ tasks[1].cancelling = 1
    /\ cancelled(task, tasks)

----------------------------------------------------------------------------
\* Calls past their guard and not yet finished after the first k events.
\* (the constructor's own start() comes before every call and is not counted)
OpenAt(k) ==
    Cardinality({j \in 1..k : events[j] = "guard passed"})
      - Cardinality({j \in 1..k : /\ events[j] \in {"create_task", "cancel"}
                                   /\ \E c \in 1..j : events[c] \in CallMarkers})

\* Some call was made while another was past its guard and not finished.
Overlapped ==
    \E i \in DOMAIN events : events[i] \in CallMarkers /\ OpenAt(i - 1) > 0

\* C15: the guards are check-then-act.  A start() that runs between another
\* start()'s guard and its store passes the guard too, and so does a stop()
\* that runs between another stop()'s guard and its cancel(); two live tasks
\* are reachable, and the one that is not the stored handle is never again
\* stored and never cancel-requested by any stop().  As long as no two calls
\* have overlapped at most one task is live.
C15_CheckThenAct ==
    /\ [][IsCall("start") /\ frames # <<>> /\ (task = None \/ cancelled(task, tasks)) =>
            Len(frames') = Len(frames) + 1]_vars
    /\ [][IsCall("stop") /\ frames # <<>> /\ task # None /\ ~cancelled(task, tasks) =>
            Len(frames') = Len(frames) + 1]_vars
    /\ [][\A i \in DOMAIN tasks :
            i # task => i # task' /\ tasks'[i].cancelling = tasks[i].cancelling]_vars
    /\ [](OpenAt(Len(events)) = Len(frames))
    /\ [](~Overlapped => Cardinality(Live) <= 1)

\* two live tasks, the first one out of reach of stop()
C15_Witness ==
    /\ Len(tasks) = 2 /\ task = 2
    /\ tasks[1].st = "live" /\ tasks[2].st = "live"
    /\ tasks[1].cancelling = 0
    /\ frames = <<>>

====
